---------------------------- MODULE Spec2Model ----------------------------
(***************************************************************************)
(* Model of extractor.py (ARTI / LAGO atmospheres): the piecewise          *)
(* atmospheric Profile Model (get_layer, depth, density, n_index) and the  *)
(* monthly accumulation loop of main().                                    *)
(*                                                                         *)
(* Numbers.  TLA+ has integers only.  Altitudes of the raw tables are in   *)
(* cm, as in the files.  The grid h is kept in tenths of a km (it has the  *)
(* points 27.5, 32.5, ...), and hi * 1.0e5 is KmToCm.  Densities, depths   *)
(* and n-1 are fixed-point numbers with a resolution of 1e-5 (the integer  *)
(* v stands for v * 1e-5), so that the floor 1e-5 of the sanitization is   *)
(* the integer 1.  A mean sum / n_files is kept as an exact fraction       *)
(* <<numerator, denominator>> in lowest terms.  np.exp is approximated by  *)
(* a rational function in thousandths (ExpNegMilli).                       *)
(***************************************************************************)
EXTENDS Integers, Sequences, FiniteSets, TLC

(***************************************************************************)
(* Bounds of the model                                                     *)
(***************************************************************************)
\* At most MaxFold raw files are found present between two resets of the
\* accumulator, not counting a month's last timestamp (always free).
MaxFold == 1
\* Altitudes and layer boundaries of the get_layer inputs range over 0..MaxAlt
MaxAlt == 3

(***************************************************************************)
(* Calendar: calendar.monthrange and days_in_year                          *)
(***************************************************************************)
IsLeap(y) == (y % 4 = 0) /\ ((y % 100 # 0) \/ (y % 400 = 0))

monthrange(y, m) ==
    IF m = 2 THEN (IF IsLeap(y) THEN 29 ELSE 28)
    ELSE IF m \in {4, 6, 9, 11} THEN 30 ELSE 31

gdas_local_hour == <<0, 12>>

(***************************************************************************)
(* Fractions                                                               *)
(***************************************************************************)
RECURSIVE GCD(_, _)
GCD(a, b) == IF b = 0 THEN a ELSE GCD(b, a % b)

Abs(x) == IF x < 0 THEN -x ELSE x

\* num / den in lowest terms, den > 0
Frac(num, den) ==
    LET g == GCD(Abs(num), den)
    IN  <<num \div g, den \div g>>

FracNeg(q) == q[1] < 0

(***************************************************************************)
(* Profile Model                                                           *)
(***************************************************************************)
\* h = concatenate(arange(0,25,1), arange(25,50,2.5), arange(50,125,5)),
\* in tenths of a km
h == [i \in 1..50 |->
        IF i <= 25 THEN (i - 1) * 10
        ELSE IF i <= 35 THEN 250 + (i - 26) * 25
        ELSE 500 + (i - 36) * 50]

\* hi * 1.0e5 : km to cm (hi in tenths of a km)
KmToCm(hi) == hi * 10000

\* an_atm[r][c] of the source (0-based) is At(atm, r, c)
At(atm, r, c) == atm[r + 1][c + 1]

RECURSIVE layer_scan(_, _, _)
layer_scan(an_h, an_atm, i) ==
    IF i > 4 THEN 4
    ELSE IF an_h < At(an_atm, 0, i) THEN i - 1
    ELSE layer_scan(an_h, an_atm, i + 1)

\* Mutant: the comparison of line 90 written <= instead of <
RECURSIVE layer_scan_le(_, _, _)
layer_scan_le(an_h, an_atm, i) ==
    IF i > 4 THEN 4
    ELSE IF an_h <= At(an_atm, 0, i) THEN i - 1
    ELSE layer_scan_le(an_h, an_atm, i + 1)

get_layer_le(an_h, an_atm) == layer_scan_le(an_h, an_atm, 1)

\* Mutant: the break of line 92 dropped, the last match wins
RECURSIVE layer_scan_nobreak(_, _, _, _)
layer_scan_nobreak(an_h, an_atm, i, layer) ==
    IF i > 4 THEN layer
    ELSE layer_scan_nobreak(an_h, an_atm, i + 1,
                            IF an_h < At(an_atm, 0, i) THEN i - 1 ELSE layer)

get_layer_nobreak(an_h, an_atm) == layer_scan_nobreak(an_h, an_atm, 1, 4)

\* Mutant: range(1, 4) instead of range(1, 5), row0[4] is never compared
RECURSIVE layer_scan_short(_, _, _)
layer_scan_short(an_h, an_atm, i) ==
    IF i > 3 THEN 4
    ELSE IF an_h < At(an_atm, 0, i) THEN i - 1
    ELSE layer_scan_short(an_h, an_atm, i + 1)

get_layer_short(an_h, an_atm) == layer_scan_short(an_h, an_atm, 1)

get_layer(an_h, an_atm) == layer_scan(an_h, an_atm, 1)

\* 1000 * exp(-an_h / c), by 1 / (1 + x + x^2 / 2); 0 beyond x = 20
ExpNegMilli(an_h, c) ==
    LET xm == an_h \div (c \div 1000)
    IN  IF xm > 20000 THEN 0
        ELSE 2000000000 \div (2000000 + 2000 * xm + xm * xm)

\* depth in units of 1e-5
depth(an_h, an_atm) ==
    LET layer == get_layer(an_h, an_atm)
        a == At(an_atm, 1, layer)
        b == At(an_atm, 2, layer)
        c == At(an_atm, 3, layer)
    IN  IF layer = 4
        THEN 100000 * a - 100 * ((1000 * b * (an_h \div 1000)) \div (c \div 1000))
        ELSE 100000 * a + 100 * b * ExpNegMilli(an_h, c)

\* density in units of 1e-5
density(an_h, an_atm) ==
    LET layer == get_layer(an_h, an_atm)
        b == At(an_atm, 2, layer)
        c == At(an_atm, 3, layer)
    IN  IF layer = 4
        THEN (b * 100 * (At(an_atm, 0, layer) \div 1000))
                 \div ((c \div 1000) * (an_h \div 1000))
        ELSE (b * ExpNegMilli(an_h, c) * 100) \div c

\* 3.e-3 in units of 1e-5
n_index == 300

\* The evaluated profile of one raw table on the grid (lines 240-242)
rho_of(atm)   == [i \in 1..Len(h) |-> density(KmToCm(h[i]), atm)]
thick_of(atm) == [i \in 1..Len(h) |-> depth(KmToCm(h[i]), atm)]
n_of(atm)     == [i \in 1..Len(h) |-> n_index]

np_zeros_like(a) == [i \in 1..Len(a) |-> 0]

(***************************************************************************)
(* Inputs: the site registry, the raw tables the tool can produce, the     *)
(* command line                                                            *)
(***************************************************************************)
\* sheet.get_all_records(): two sites
data == << [SiteId |-> 1], [SiteId |-> 12] >>

\* Raw 4 x 5 tables (rows: boundaries in cm, a, b, c)
Tables == [
    T1 |-> << <<0, 400000, 1000000, 4000000, 10000000>>,
              <<-2, -1, 0, 0, 1>>,
              <<12, 11, 13, 5, 20>>,
              <<1000000, 900000, 600000, 700000, 2000000>> >>,
    T2 |-> << <<0, 500000, 1200000, 3000000, 11000000>>,
              <<0, 1, 2, -3, 0>>,
              <<10, -8, 6, 4, 10>>,
              <<800000, 1000000, 500000, 600000, 1000000>> >> ]

TableIds == DOMAIN Tables
NoFile == "none"

\* -y <year>: the default 2018 (a common year) and a leap year
Years == {2018, 2020}
\* -s <site>: <<>> is the default False
SiteArgs == {<<>>, <<12>>}

(***************************************************************************)
(* State of main()                                                         *)
(***************************************************************************)
VARIABLES
    extract, average, gdas_site, start_year, end_year, default_last,
        \* the configuration after the command line (lines 135-182)
    row, year, month, day, hour,
        \* the position of the loops of lines 211-215
    pc, \* "row", "extract", "average", "monthend", "advance", "done", "error"
    gdas_file,
        \* the raw file of the current timestamp on disk: NoFile or the table
        \* it holds
    rho, thick, n, n_files,
        \* the accumulator (lines 129-133)
    first_table,
        \* environment: while first_table is a table, the run is in its first
        \* processed month and every raw file of that month is present and
        \* holds that table; NoFile otherwise
    existed, tool_calls, gdas, folded, diag, avg_files,
        \* what the current iteration did: the file was there at line 221,
        \* runs of gdastool, the exit status of the run (line 233: "none" when
        \* not run, "ok" for 0, "failed" otherwise), folds, diagnostics
        \* printed, averaged file written
    fold_tabs,
        \* history of the accumulator: the tables folded since it was last
        \* zeroed, by table
    month_tabs, month_flush, month_out,
        \* history of the current site-month: the tables folded, by table, the
        \* number of times the month-end branch (line 244) was taken, and the
        \* number of averaged files written
    sel
        \* one evaluation of get_layer on drawn inputs: the altitude, the
        \* table and the layer returned (-1 before the call)

cfg_vars == <<extract, average, gdas_site, start_year, end_year, default_last>>
loop_vars == <<row, year, month, day, hour>>
acc_vars == <<rho, thick, n, n_files>>
iter_vars == <<existed, tool_calls, gdas, folded, diag, avg_files>>
month_vars == <<month_tabs, month_flush, month_out>>
vars == <<cfg_vars, loop_vars, pc, gdas_file, acc_vars, first_table,
          iter_vars, month_vars, fold_tabs, sel>>

NoTabs == [t \in TableIds |-> 0]
NoSel == [an_h |-> 0, an_atm |-> Tables["T1"], layer |-> -1]

\* line 212: not gdas_site or int(row['SiteId']) == int(gdas_site)
SiteSelected(r) == gdas_site = <<>> \/ data[r].SiteId = gdas_site[1]

\* line 244: date.day == monthrange(date.year, date.month)[1] and
\*           hour == gdas_local_hour[-1]
IsMonthEnd(y, m, d, hr) ==
    d = monthrange(y, m) /\ hr = gdas_local_hour[Len(gdas_local_hour)]

\* The raw files that can be on disk at a timestamp (os.path.isfile and the
\* content np.loadtxt reads), ft: first_table, nf: n_files, last: the
\* timestamp is the last of its month
FilesAt(ft, nf, last) ==
    IF ft # NoFile THEN {ft}
    ELSE IF nf < MaxFold \/ last THEN {NoFile} \cup TableIds
    ELSE {NoFile}

\* lines 135-141: the default configuration
Defaults ==
    /\ extract = TRUE /\ average = TRUE /\ gdas_site = <<>>
    /\ start_year = 2018 /\ default_last = TRUE

\* lines 143-178: each of -e, -a toggles, -s, -y, -d set
Options ==
    /\ extract \in BOOLEAN
    /\ average \in BOOLEAN
    /\ gdas_site \in SiteArgs
    /\ start_year \in Years
    /\ default_last \in BOOLEAN

\* lines 128-133 and 176-182: the state before the loop over the rows
Start ==
    \* line 176: end_year = arg keeps the string; line 181: the start year
    /\ end_year = [str |-> ~default_last, val |-> start_year]
    /\ row = 1 /\ year = start_year /\ month = 1 /\ day = 1 /\ hour = 0
    /\ pc = "row"
    /\ gdas_file = NoFile
    /\ rho = np_zeros_like(h) /\ thick = np_zeros_like(h)
    /\ n = np_zeros_like(h) /\ n_files = 0
    /\ existed = FALSE /\ tool_calls = 0 /\ gdas = "none" /\ folded = 0
    /\ diag = {} /\ avg_files = {}
    /\ fold_tabs = NoTabs
    /\ month_tabs = NoTabs /\ month_flush = 0 /\ month_out = 0

Init ==
    /\ Options
    /\ Start
    /\ first_table \in {NoFile} \cup TableIds
    /\ sel = NoSel

\* Start of one iteration of the loop body (line 216) at timestamp y, m, d, hr
\* of row r
Enter(r, y, m, d, hr, ft) ==
    /\ row' = r /\ year' = y /\ month' = m /\ day' = d /\ hour' = hr
    /\ pc' = "extract"
    /\ first_table' = ft
    /\ gdas_file' \in FilesAt(ft, n_files, IsMonthEnd(y, m, d, hr))
    /\ existed' = FALSE /\ tool_calls' = 0 /\ gdas' = "none" /\ folded' = 0
    /\ diag' = {} /\ avg_files' = {}

\* lines 211-213: the next row of the registry
NextRow ==
    /\ pc = "row"
    /\ UNCHANGED <<cfg_vars, acc_vars, fold_tabs, sel>>
    /\ IF row > Len(data)
       THEN /\ pc' = "done"
            /\ UNCHANGED <<loop_vars, gdas_file, first_table, iter_vars,
                           month_vars>>
       ELSE IF ~SiteSelected(row)
       THEN /\ row' = row + 1
            /\ UNCHANGED <<year, month, day, hour, pc, gdas_file, first_table,
                           iter_vars, month_vars>>
       ELSE IF end_year.str
       THEN \* range(start_year, end_year + 1): str + int raises TypeError
            /\ pc' = "error"
            /\ UNCHANGED <<loop_vars, gdas_file, first_table, iter_vars,
                           month_vars>>
       ELSE IF start_year > end_year.val
       THEN /\ row' = row + 1
            /\ UNCHANGED <<year, month, day, hour, pc, gdas_file, first_table,
                           iter_vars, month_vars>>
       ELSE /\ Enter(row, start_year, 1, 1, gdas_local_hour[1], first_table)
            /\ month_tabs' = NoTabs /\ month_flush' = 0 /\ month_out' = 0

\* Mutant: line 221 dropped, gdastool runs whenever extraction is on
ExtractAlways ==
    /\ pc = "extract"
    /\ existed' = (gdas_file # NoFile)
    /\ IF extract
       THEN /\ tool_calls' = tool_calls + 1
            /\ gdas' \in {"ok", "failed"}
            /\ gdas_file' \in IF gdas_file # NoFile THEN {gdas_file}
                              ELSE FilesAt(first_table, n_files,
                                           IsMonthEnd(year, month, day, hour))
       ELSE UNCHANGED <<tool_calls, gdas, gdas_file>>
    /\ pc' = "average"
    /\ UNCHANGED <<cfg_vars, loop_vars, acc_vars, first_table, folded, diag,
                   avg_files, month_vars, fold_tabs, sel>>

\* Mutant: gdastool is run a second time when the file is still absent
ExtractRetry ==
    /\ pc = "extract"
    /\ existed' = (gdas_file # NoFile)
    /\ IF extract /\ gdas_file = NoFile
       THEN /\ gdas' \in {"ok", "failed"}
            /\ gdas_file' \in FilesAt(first_table, n_files,
                                      IsMonthEnd(year, month, day, hour))
            /\ tool_calls' = tool_calls + IF gdas_file' = NoFile THEN 2 ELSE 1
       ELSE UNCHANGED <<tool_calls, gdas, gdas_file>>
    /\ pc' = "average"
    /\ UNCHANGED <<cfg_vars, loop_vars, acc_vars, first_table, folded, diag,
                   avg_files, month_vars, fold_tabs, sel>>

\* lines 216-236: gdastool runs when extraction is on and the file is absent;
\* it creates the file or not, and its result is not looked at
Extract ==
    /\ pc = "extract"
    /\ existed' = (gdas_file # NoFile)
    /\ IF extract /\ gdas_file = NoFile
       THEN /\ tool_calls' = tool_calls + 1
            \* line 233: gdas = subprocess.run(gdas_cmd), only printed
            /\ gdas' \in {"ok", "failed"}
            /\ gdas_file' \in FilesAt(first_table, n_files,
                                      IsMonthEnd(year, month, day, hour))
       ELSE UNCHANGED <<tool_calls, gdas, gdas_file>>
    /\ pc' = "average"
    /\ UNCHANGED <<cfg_vars, loop_vars, acc_vars, first_table, folded, diag,
                   avg_files, month_vars, fold_tabs, sel>>

\* Mutant: "=" written for "+=" in lines 240-242, the sum is overwritten
VecAddAssign(a, b) == [i \in 1..Len(a) |-> b[i]]

VecAdd(a, b) == [i \in 1..Len(a) |-> a[i] + b[i]]

\* Mutant: n_files += 1 placed outside the os.path.isfile test of line 238
AverageCountsMissing ==
    /\ pc = "average"
    /\ IF average /\ gdas_file # NoFile
       THEN LET atm == Tables[gdas_file]
            IN  /\ rho' = VecAdd(rho, rho_of(atm))
                /\ thick' = VecAdd(thick, thick_of(atm))
                /\ n' = VecAdd(n, n_of(atm))
                /\ n_files' = n_files + 1
                /\ folded' = folded + 1
                /\ month_tabs' = [month_tabs EXCEPT ![gdas_file] = @ + 1]
                /\ fold_tabs' = [fold_tabs EXCEPT ![gdas_file] = @ + 1]
                /\ pc' = "monthend"
                /\ UNCHANGED diag
       ELSE /\ diag' = IF average THEN diag \cup {"No file"} ELSE diag
            /\ n_files' = IF average THEN n_files + 1 ELSE n_files
            /\ pc' = "advance"
            /\ UNCHANGED <<rho, thick, n, folded, month_tabs, fold_tabs>>
    /\ UNCHANGED <<cfg_vars, loop_vars, gdas_file, first_table, existed,
                   tool_calls, gdas, avg_files, month_flush, month_out, sel>>

\* Mutant: the test of line 237 dropped, a file is folded whatever the toggle
AverageAlways ==
    /\ pc = "average"
    /\ IF gdas_file # NoFile
       THEN LET atm == Tables[gdas_file]
            IN  /\ rho' = VecAdd(rho, rho_of(atm))
                /\ thick' = VecAdd(thick, thick_of(atm))
                /\ n' = VecAdd(n, n_of(atm))
                /\ n_files' = n_files + 1
                /\ folded' = folded + 1
                /\ month_tabs' = [month_tabs EXCEPT ![gdas_file] = @ + 1]
                /\ fold_tabs' = [fold_tabs EXCEPT ![gdas_file] = @ + 1]
                /\ pc' = "monthend"
                /\ UNCHANGED diag
       ELSE /\ diag' = diag \cup {"No file"}
            /\ pc' = "advance"
            /\ UNCHANGED <<acc_vars, folded, month_tabs, fold_tabs>>
    /\ UNCHANGED <<cfg_vars, loop_vars, gdas_file, first_table, existed,
                   tool_calls, gdas, avg_files, month_flush, month_out, sel>>

\* lines 237-243 and 278-279: fold the profile of the file, or report it
\* missing
Average ==
    /\ pc = "average"
    /\ IF average /\ gdas_file # NoFile
       THEN LET atm == Tables[gdas_file]
            IN  /\ rho' = VecAdd(rho, rho_of(atm))
                /\ thick' = VecAdd(thick, thick_of(atm))
                /\ n' = VecAdd(n, n_of(atm))
                /\ n_files' = n_files + 1
                /\ folded' = folded + 1
                /\ month_tabs' = [month_tabs EXCEPT ![gdas_file] = @ + 1]
                /\ fold_tabs' = [fold_tabs EXCEPT ![gdas_file] = @ + 1]
                /\ pc' = "monthend"
                /\ UNCHANGED diag
       ELSE /\ diag' = IF average THEN diag \cup {"No file"} ELSE diag
            /\ pc' = "advance"
            /\ UNCHANGED <<acc_vars, folded, month_tabs, fold_tabs>>
    /\ UNCHANGED <<cfg_vars, loop_vars, gdas_file, first_table, existed,
                   tool_calls, gdas, avg_files, month_flush, month_out, sel>>

(***************************************************************************)
(* Month-end flush: lines 244-277                                          *)
(***************************************************************************)
RECURSIVE Digits(_)
\* '{:d}'.format(k), k >= 0, as the sequence of its decimal digits
Digits(k) == IF k < 10 THEN <<k>> ELSE Append(Digits(k \div 10), k % 10)

\* '{:02d}'.format(k), k >= 0
Pad2(k) == IF k < 10 THEN <<0, k>> ELSE Digits(k)

\* lines 258-262
avg_id(SiteId, y, m) ==
    Digits(SiteId) \o Pad2(y - (y \div 100) * 100) \o Pad2(m)

\* line 263: f"atmprof{avg_id}.dat"
avg_file(id) == [prefix |-> "atmprof", id |-> id, ext |-> ".dat"]

\* Mutant: lines 247-249 dropped, the sums are written undivided
MeanNoDiv(sums, cnt) == [i \in 1..Len(sums) |-> Frac(sums[i], 1)]

\* lines 247-249: sums / n_files, element-wise
Mean(sums, cnt) == [i \in 1..Len(sums) |-> Frac(sums[i], cnt)]

\* avg_atm[avg_atm < 0] = 1e-5 on one column; floor is 1e-5 in the column's
\* unit
Clamp(col, floor) ==
    [i \in 1..Len(col) |-> IF FracNeg(col[i]) THEN floor ELSE col[i]]

\* Mutant: line 256 dropped, the last depth is not forced to 0
SanitizeNoTop(a, r, t, nn) ==
    [a |-> Clamp(a, Frac(1, 100000)),
     r |-> Clamp(r, Frac(1, 1)),
     t |-> Clamp(t, Frac(1, 1)),
     n |-> Clamp(nn, Frac(1, 1))]

\* lines 251-256: the data frame, the negative values, the last depth
Sanitize(a, r, t, nn) ==
    LET df == [a |-> Clamp(a, Frac(1, 100000)),
               r |-> Clamp(r, Frac(1, 1)),
               t |-> Clamp(t, Frac(1, 1)),
               n |-> Clamp(nn, Frac(1, 1))]
    IN  [df EXCEPT !.t[49 + 1] = Frac(0, 1)]

\* the grid in km, as the column "a" of the data frame
h_km == [i \in 1..Len(h) |-> Frac(h[i], 10)]

MonthEnd ==
    /\ pc = "monthend"
    /\ month_flush' = IF IsMonthEnd(year, month, day, hour)
                      THEN month_flush + 1 ELSE month_flush
    /\ IF IsMonthEnd(year, month, day, hour)
       THEN IF n_files > 0
            THEN /\ avg_files' =
                      {[file |-> avg_file(avg_id(data[row].SiteId, year, month)),
                        n_files |-> n_files,
                        rho |-> rho, thick |-> thick, n |-> n,
                        avg_atm |-> Sanitize(h_km, Mean(rho, n_files),
                                             Mean(thick, n_files),
                                             Mean(n, n_files))]}
                 /\ month_out' = month_out + 1
                 /\ rho' = np_zeros_like(h)
                 /\ thick' = np_zeros_like(h)
                 /\ n' = np_zeros_like(h)
                 /\ n_files' = 0
                 /\ fold_tabs' = NoTabs
                 /\ UNCHANGED diag
            ELSE /\ diag' = diag \cup {"Warning: no files"}
                 /\ UNCHANGED <<avg_files, month_out, acc_vars, fold_tabs>>
       ELSE UNCHANGED <<avg_files, month_out, acc_vars, fold_tabs, diag>>
    /\ pc' = "advance"
    /\ UNCHANGED <<cfg_vars, loop_vars, gdas_file, first_table, existed,
                   tool_calls, gdas, folded, month_tabs, sel>>

\* lines 213-215: the next hour, day (days_in_year), year, or the end of the
\* row's loops
Advance ==
    /\ pc = "advance"
    /\ UNCHANGED <<cfg_vars, acc_vars, fold_tabs, sel>>
    /\ IF hour # gdas_local_hour[Len(gdas_local_hour)]
       THEN /\ Enter(row, year, month, day, gdas_local_hour[2], first_table)
            /\ UNCHANGED month_vars
       ELSE IF day < monthrange(year, month)
       THEN /\ Enter(row, year, month, day + 1, gdas_local_hour[1], first_table)
            /\ UNCHANGED month_vars
       ELSE IF month < 12
       THEN /\ Enter(row, year, month + 1, 1, gdas_local_hour[1], NoFile)
            /\ month_tabs' = NoTabs /\ month_flush' = 0 /\ month_out' = 0
       ELSE IF year < end_year.val
       THEN /\ Enter(row, year + 1, 1, 1, gdas_local_hour[1], NoFile)
            /\ month_tabs' = NoTabs /\ month_flush' = 0 /\ month_out' = 0
       ELSE /\ row' = row + 1
            /\ pc' = "row"
            /\ first_table' = NoFile
            /\ UNCHANGED <<year, month, day, hour, gdas_file, iter_vars,
                           month_vars>>

Next == NextRow \/ Extract \/ Average \/ MonthEnd \/ Advance

Spec == Init /\ [][Next]_vars

(***************************************************************************)
(* get_layer on drawn inputs: every altitude and every row 0 over           *)
(* 0..MaxAlt, the other rows those of T1                                    *)
(***************************************************************************)
Row0s == [1..5 -> 0..MaxAlt]

ProbeTable(r0) == [Tables["T1"] EXCEPT ![1] = r0]

InitLayer ==
    /\ Defaults
    /\ Start
    /\ first_table = NoFile
    /\ sel \in {[an_h |-> a, an_atm |-> ProbeTable(r0), layer |-> -1] :
                   a \in 0..MaxAlt, r0 \in Row0s}

\* line 97 / 106: layer = get_layer(an_h, an_atm)
SelectLayer ==
    /\ sel.layer = -1
    /\ sel' = [sel EXCEPT !.layer = get_layer(sel.an_h, sel.an_atm)]
    /\ UNCHANGED <<cfg_vars, loop_vars, pc, gdas_file, acc_vars, first_table,
                   iter_vars, month_vars, fold_tabs>>

LayerSpec == InitLayer /\ [][SelectLayer]_vars

TypeOK ==
    /\ pc \in {"row", "extract", "average", "monthend", "advance", "done",
               "error"}
    /\ n_files \in Nat
    /\ month \in 1..12 /\ day \in 1..monthrange(year, month)
    /\ hour \in {0, 12}
    /\ gdas \in {"none", "ok", "failed"}
    /\ tool_calls \in Nat /\ folded \in Nat

(***************************************************************************)
(* Properties                                                              *)
(***************************************************************************)
RECURSIVE SetSum(_, _)
SetSum(f, S) ==
    IF S = {} THEN 0
    ELSE LET x == CHOOSE y \in S : TRUE IN f[x] + SetSum(f, S \ {x})

AccZero ==
    /\ n_files = 0
    /\ rho = np_zeros_like(h) /\ thick = np_zeros_like(h) /\ n = np_zeros_like(h)

\* The first timestamp of a month is about to be processed
AtMonthStart == pc = "extract" /\ day = 1 /\ hour = gdas_local_hour[1]

\* The last timestamp of a month has been processed
MonthDone == pc = "advance" /\ IsMonthEnd(year, month, day, hour)

\* Timestamps of the current site-month whose raw file existed at line 238
MonthCount == SetSum(month_tabs, TableIds)

\* C1: with averaging enabled, the running sums and the timestamp count are
\* all zero when the first timestamp of a month is about to be processed.
C1_ZeroAtMonthStart == (average /\ AtMonthStart) => AccZero

\* C2: with averaging enabled, the month-end flush triggers exactly once in
\* every month: at the last local time of the month's last day (February 28
\* or 29 by the year), and at no other timestamp of the month.
C2_FlushOncePerMonth ==
    (average /\ pc = "advance") =>
        IF IsMonthEnd(year, month, day, hour)
        THEN month_flush = 1
        ELSE month_flush = 0

\* C3: whenever an averaged profile is written, the divisor is the number of
\* timestamps of the same site and month whose raw file existed, and the sums
\* divided are exactly the sums of the profiles of those timestamps.
C3_MeanOverOwnMonth ==
    \A f \in avg_files :
        /\ f.n_files = MonthCount
        /\ \A i \in 1..Len(h) :
              /\ f.rho[i] = SetSum([t \in TableIds |->
                     month_tabs[t] * density(KmToCm(h[i]), Tables[t])], TableIds)
              /\ f.thick[i] = SetSum([t \in TableIds |->
                     month_tabs[t] * depth(KmToCm(h[i]), Tables[t])], TableIds)
              /\ f.n[i] = MonthCount * n_index

\* C4: with averaging enabled, when the last timestamp of a month has been
\* processed and the timestamp count was zero (nothing of the month folded),
\* the "no files for month" warning has been printed, no averaged file was
\* written, and the accumulator is zero.
C4_EmptyMonthWarns ==
    (average /\ MonthDone /\ MonthCount = 0 /\ n_files = 0) =>
        /\ "Warning: no files" \in diag
        /\ avg_files = {}
        /\ AccZero

\* C5: a month in which exactly one timestamp is folded, whichever it is,
\* yields an averaged profile for that month equal to that one evaluated
\* profile, up to the clamping of negative values and the zero of the last
\* depth.
C5_SingleFoldRoundTrip ==
    (average /\ MonthDone /\ MonthCount = 1) =>
        \E f \in avg_files : \E t \in TableIds :
            /\ month_tabs[t] = 1
            /\ f.file.id = avg_id(data[row].SiteId, year, month)
            /\ \A i \in 1..Len(h) :
                 LET r == density(KmToCm(h[i]), Tables[t])
                     d == depth(KmToCm(h[i]), Tables[t])
                 IN  /\ f.avg_atm.r[i] = IF r < 0 THEN <<1, 1>> ELSE <<r, 1>>
                     /\ f.avg_atm.t[i] = IF i = Len(h) THEN <<0, 1>>
                                         ELSE IF d < 0 THEN <<1, 1>>
                                         ELSE <<d, 1>>
                     /\ f.avg_atm.n[i] = <<n_index, 1>>

\* C6: when the processing of a selected site begins, the running sums and
\* the timestamp count are zero (the accumulator is not shared across sites).
C6_ZeroAtSiteStart ==
    (pc = "extract" /\ year = start_year /\ month = 1 /\ day = 1
        /\ hour = gdas_local_hour[1]) => AccZero

SanEntry(sum, cnt, out) ==
    IF sum < 0 THEN out = <<1, 1>>
    ELSE out[2] > 0 /\ out[1] * cnt = sum * out[2]

\* C8: in every averaged profile written, every density, depth or n-1 entry
\* whose raw mean is below zero is 1e-5, every entry whose raw mean is not
\* below zero is the raw mean, no entry is negative, and the depth at the
\* 50th grid altitude is exactly 0 whatever its mean.
C8_Sanitized ==
    \A f \in avg_files : \A i \in 1..Len(h) :
        /\ SanEntry(f.rho[i], f.n_files, f.avg_atm.r[i])
        /\ IF i = 50 THEN f.avg_atm.t[i] = <<0, 1>>
           ELSE SanEntry(f.thick[i], f.n_files, f.avg_atm.t[i])
        /\ SanEntry(f.n[i], f.n_files, f.avg_atm.n[i])
        /\ f.avg_atm.r[i][1] >= 0 /\ f.avg_atm.t[i][1] >= 0
        /\ f.avg_atm.n[i][1] >= 0

C8_Witness ==
    \E f \in avg_files :
        /\ \E i \in 1..Len(h) : f.rho[i] < 0
        /\ \E i \in 1..Len(h) : f.thick[i] < 0 /\ i # 50
        /\ \E i \in 1..Len(h) : f.thick[i] > 0
        /\ f.thick[50] # 0
        /\ f.n_files > 1

\* Row 0 of the table is non-decreasing over its five columns
NonDecreasing(an_atm) ==
    \A c \in 0..3 : At(an_atm, 0, c) <= At(an_atm, 0, c + 1)

OneEntry(v) == IF v < 0 THEN <<1, 1>> ELSE <<v, 1>>

\* C10: when every raw file of the first processed month is present and all
\* hold the same table, exactly one averaged file is written for that month,
\* at the month's last timestamp and not before; it is named
\* atmprof{siteId}{yy}{mm}.dat and its values are the evaluation of that one
\* table after sanitization.
C10_FullFirstMonth ==
    (average /\ first_table # NoFile) =>
        /\ month_out = IF MonthDone THEN 1 ELSE 0
        /\ avg_files # {} => MonthDone
        /\ MonthDone =>
             \E f \in avg_files :
                LET id == data[row].SiteId
                    yy == year % 100
                    atm == Tables[first_table]
                IN  /\ avg_files = {f}
                    /\ f.file.prefix = "atmprof" /\ f.file.ext = ".dat"
                    /\ f.file.id =
                          (IF id < 10 THEN <<id>> ELSE <<id \div 10, id % 10>>)
                          \o <<yy \div 10, yy % 10>>
                          \o <<month \div 10, month % 10>>
                    /\ \A i \in 1..Len(h) :
                         /\ f.avg_atm.r[i] =
                               OneEntry(density(KmToCm(h[i]), atm))
                         /\ f.avg_atm.t[i] =
                               IF i = 50 THEN <<0, 1>>
                               ELSE OneEntry(depth(KmToCm(h[i]), atm))
                         /\ f.avg_atm.n[i] = <<n_index, 1>>

C10_Witness ==
    /\ average /\ first_table = "T2" /\ MonthDone /\ gdas_site = <<12>>
    /\ \E f \in avg_files :
          /\ f.n_files = 2 * monthrange(year, month)
          /\ f.file.id = <<1, 2, 2, 0, 0, 1>>

\* Days of year y before month m
RECURSIVE DaysBefore(_, _)
DaysBefore(y, m) ==
    IF m = 1 THEN 0 ELSE monthrange(y, m - 1) + DaysBefore(y, m - 1)

\* Position of a timestamp in its year: midnight of 1 January is 0, noon of
\* 1 January is 1, midnight of 2 January is 2, ...
StampNo(y, m, d, hr) ==
    2 * (DaysBefore(y, m) + d - 1) + IF hr = gdas_local_hour[1] THEN 0 ELSE 1

\* The step starts the iteration of the timestamp that follows the current
\* one, or leaves the row after the last timestamp of the last year
ToNextStamp ==
    \/ /\ pc' = "extract" /\ row' = row /\ year' = year
       /\ StampNo(year', month', day', hour')
             = StampNo(year, month, day, hour) + 1
    \/ /\ pc' = "extract" /\ row' = row /\ year' = year + 1
       /\ month = 12 /\ IsMonthEnd(year, month, day, hour)
       /\ StampNo(year', month', day', hour') = 0
    \/ /\ pc' = "row" /\ row' = row + 1
       /\ month = 12 /\ IsMonthEnd(year, month, day, hour)

\* The timestamp's file was absent at line 221, gdastool has been run and the
\* file is still absent
ToolFailed ==
    /\ pc \in {"average", "advance"}
    /\ extract /\ ~existed /\ gdas_file = NoFile

\* One step of a timestamp at which gdastool leaves no file; the diagnostic
\* is required always (always = TRUE) or with averaging enabled only
C11_Step(always) ==
    /\ (pc = "extract" /\ extract /\ gdas_file = NoFile) =>
          /\ tool_calls' = 1
          /\ pc' = "average"
    /\ (ToolFailed /\ pc = "average") =>
          /\ tool_calls = 1 /\ tool_calls' = 1
          /\ folded' = 0 /\ UNCHANGED acc_vars
          /\ (always \/ average) => "No file" \in diag'
          /\ pc' = "advance"
    /\ (ToolFailed /\ pc = "advance") =>
          /\ tool_calls = 1 /\ folded = 0
          /\ UNCHANGED acc_vars
          /\ ToNextStamp

\* C11 as stated: at a timestamp where gdastool is run and the file is still
\* absent afterwards, gdastool is run exactly once, whatever its exit status
\* the timestamp is not folded, a missing-file diagnostic is emitted, and the
\* run goes on to the next timestamp.
C11_AsStated == [][C11_Step(TRUE)]_vars

\* C11, amended: at a timestamp where gdastool is run and the file is still
\* absent afterwards, gdastool is run exactly once, whatever its exit status
\* the timestamp is not folded, a missing-file diagnostic is emitted when
\* averaging is enabled, and the run goes on to the next timestamp.
C11_SkipAndContinue == [][C11_Step(FALSE)]_vars

C11_Witness ==
    /\ ToolFailed /\ pc = "advance" /\ average
    /\ tool_calls = 1 /\ gdas = "ok" /\ folded = 0 /\ n_files = 1
    /\ "No file" \in diag

\* The indices i in {0,1,2,3} with an_h < row0[i + off] in the evaluation s
Below(s, off) == {i \in 0..3 : s.an_h < At(s.an_atm, 0, i + off)}

\* The layer of s is the smallest index of Below(s, off), 4 when there is none
SmallestOf(s, off) ==
    IF Below(s, off) = {} THEN s.layer = 4
    ELSE /\ s.layer \in Below(s, off)
         /\ \A j \in Below(s, off) : s.layer <= j

DividesByZero(s) == s.layer = 4 /\ s.an_h = 0

\* C13 as stated: for every table with non-decreasing row 0, the grid's
\* first altitude (0 km) selects a layer other than 4, so the density of
\* layer 4 is never divided by a zero altitude.
C13_AsStated ==
    (sel.layer # -1 /\ NonDecreasing(sel.an_atm)
        /\ sel.an_h = KmToCm(h[1])) =>
        sel.layer # 4 /\ ~DividesByZero(sel)

\* C13, amended: for every table with non-decreasing row 0 whose last entry
\* row0[4] is above zero, the grid's first altitude (0 km) selects a layer
\* other than 4, so the density of layer 4 is never divided by a zero
\* altitude.
C13_NoTopLayerAtZero ==
    (sel.layer # -1 /\ NonDecreasing(sel.an_atm)
        /\ At(sel.an_atm, 0, 4) > 0
        /\ sel.an_h = KmToCm(h[1])) =>
        sel.layer # 4 /\ ~DividesByZero(sel)

C13_Witness ==
    /\ sel.layer = 3 /\ NonDecreasing(sel.an_atm)
    /\ sel.an_h = KmToCm(h[1])
    /\ At(sel.an_atm, 0, 3) = 0 /\ At(sel.an_atm, 0, 4) > 0

\* C14: for any start year and any end year given with -d that is not below
\* it, the run takes every selected site through every timestamp of the
\* years start_year..end_year in chronological order, midnight then noon of
\* each day, each exactly once, and ends normally (never in an exception);
\* without -d the only year is start_year.
C14_EnumeratesYears ==
    [][ /\ pc' # "error"
        /\ (pc = "row" /\ pc' = "extract") =>
              /\ SiteSelected(row') /\ year' = start_year
              /\ StampNo(year', month', day', hour') = 0
        /\ (pc = "advance") =>
              /\ ToNextStamp
              /\ year' \in start_year..end_year.val
              /\ pc' = "row" => year = end_year.val
        /\ default_last => end_year.val = start_year
      ]_vars

\* C15: at a timestamp whose raw file is absent when the averaging branch
\* tests for it, no step of the timestamp changes the running sums or the
\* count, the "No file" diagnostic is printed, and the run goes on to the
\* next timestamp without an exception.
C15_MissingFileSkipped ==
    [][ /\ (pc = "extract" /\ average /\ gdas_file' = NoFile) =>
              UNCHANGED acc_vars
        /\ (pc = "average" /\ average /\ gdas_file = NoFile) =>
              /\ UNCHANGED acc_vars
              /\ folded' = 0
              /\ "No file" \in diag'
              /\ pc' = "advance"
        /\ (pc = "advance" /\ average /\ gdas_file = NoFile) =>
              /\ folded = 0 /\ "No file" \in diag /\ avg_files = {}
              /\ UNCHANGED acc_vars
              /\ ToNextStamp
      ]_vars

C15_Witness ==
    /\ pc = "advance" /\ average /\ ~extract /\ gdas_file = NoFile
    /\ n_files = 1 /\ folded = 0 /\ "No file" \in diag
    /\ IsMonthEnd(year, month, day, hour)

\* The evaluated profile of every table, evaluated once (@@ gives the
\* functions in explicit form)
ProfileOf ==
    [t \in TableIds |-> [rho |-> rho_of(Tables[t]) @@ <<>>,
                         thick |-> thick_of(Tables[t]) @@ <<>>,
                         n |-> n_of(Tables[t]) @@ <<>>]] @@ <<>>

\* The element-wise sum, over the tables t of S, of c[t] times the column f
\* ("rho", "thick" or "n") of the profile of t
RECURSIVE FoldedSum(_, _, _)
FoldedSum(c, f, S) ==
    IF S = {} THEN np_zeros_like(h)
    ELSE LET t == CHOOSE x \in S : TRUE
             rest == FoldedSum(c, f, S \ {t})
         IN  [i \in 1..Len(h) |-> c[t] * ProfileOf[t][f][i] + rest[i]]

\* The numbers of folds by table that fit between two resets: at most the
\* timestamps of one month
FoldCounts ==
    {c \in [TableIds -> 0..(2 * 31)] : SetSum(c, TableIds) <= 2 * 31}

\* The three element-wise sums for every number of folds by table,
\* evaluated once
SumsOf ==
    [c \in FoldCounts |->
        [rho |-> FoldedSum(c, "rho", TableIds) @@ <<>>,
         thick |-> FoldedSum(c, "thick", TableIds) @@ <<>>,
         n |-> FoldedSum(c, "n", TableIds) @@ <<>>]] @@ <<>>

\* C16: in every reachable state the count is the number of profiles folded
\* since the accumulator was last zeroed and each running sum is the
\* element-wise sum of exactly those profiles; the count is at least 1
\* whenever the month-end division can be reached, and was at least 1 for
\* every averaged file written.
C16_CountAndSums ==
    /\ n_files = SetSum(fold_tabs, TableIds)
    /\ fold_tabs \in FoldCounts
    /\ rho = SumsOf[fold_tabs].rho
    /\ thick = SumsOf[fold_tabs].thick
    /\ n = SumsOf[fold_tabs].n
    /\ pc = "monthend" => n_files >= 1
    /\ \A f \in avg_files : f.n_files >= 1

C16_Witness ==
    /\ pc = "monthend" /\ IsMonthEnd(year, month, day, hour) /\ month = 2
    /\ n_files = 2 /\ fold_tabs["T1"] = 1 /\ fold_tabs["T2"] = 1

\* C17: with averaging disabled the running sums and the count are zero in
\* every reachable state, nothing is folded and no averaged file is written;
\* whatever the averaging toggle, gdastool has been run once at a timestamp
\* exactly when extraction is enabled and the file was absent.
C17_AveragingOff ==
    /\ ~average =>
          /\ AccZero /\ fold_tabs = NoTabs /\ folded = 0
          /\ avg_files = {} /\ month_out = 0
    /\ pc \in {"average", "monthend", "advance"} =>
          tool_calls = IF extract /\ ~existed THEN 1 ELSE 0

C17_Witness ==
    /\ ~average /\ extract /\ pc = "advance"
    /\ ~existed /\ tool_calls = 1 /\ gdas_file # NoFile
    /\ IsMonthEnd(year, month, day, hour) /\ month = 2
    /\ avg_files = {} /\ n_files = 0

=============================================================================
